---- MODULE Spec2Model ----
(***************************************************************************)
(* A model of AeroSyn (src/app.py): the Streamlit page script, its         *)
(* geocoding / weather helpers, the agronomy advice functions and the      *)
(* VARI computation.                                                       *)
(*                                                                         *)
(* Four specifications share the variables:                                *)
(*   SpecAdvice  is_crop_in_season and recommend_fertilizer                *)
(*   SpecPest    pest_risk_advice_advanced                                 *)
(*   SpecVari    calculate_vari_from_file and the classification branch    *)
(*   Spec        the page script, run after run, in one session            *)
(*                                                                         *)
(* Text is a sequence of one-character strings, so that lower() and the    *)
(* substring test `in` are computed and not assumed.  Floats are integers  *)
(* (temperatures, humidity) or exact fractions / thousandths (VARI).       *)
(***************************************************************************)
EXTENDS Integers, Sequences, FiniteSets, TLC

VARIABLES
    \* ---- agronomy advice calls
    crop,             \* the crop argument: a row of CropTable
    current_month,    \* the month argument
    season_result,    \* <<bool, message>> returned by is_crop_in_season (<<>> before)
    fert_result,      \* message returned by recommend_fertilizer
    \* ---- pest risk call
    hourly_data,      \* the hourly_data argument
    pest_result,      \* the returned message(s)
    \* ---- VARI
    uploaded_file,    \* the uploaded file (None when nothing is uploaded)
    vari_result,      \* (avg_vari, fig) returned by calculate_vari_from_file
    vari_shown,       \* what the VARI section of the page displayed
    \* ---- page script
    pc,               \* position of the script run
    session_state,    \* st.session_state: a function over the keys present
    run               \* the script's module-level variables and its output

advVars  == <<crop, current_month, season_result, fert_result>>
pestVars == <<hourly_data, pest_result>>
variVars == <<uploaded_file, vari_result, vari_shown>>
pageVars == <<pc, session_state, run>>
vars     == <<advVars, pestVars, variVars, pageVars>>

None   == "None"      \* Python's None, where the other values are strings
NoCall == "NoCall"    \* a string result before the call has returned
Absent == <<>>        \* an absent (None / null) number; a present one is <<n>>

-----------------------------------------------------------------------------
(* Text *)

UpperChars == <<"A","B","C","D","E","F","G","H","I","J","K","L","M",
                "N","O","P","Q","R","S","T","U","V","W","X","Y","Z">>
LowerChars == <<"a","b","c","d","e","f","g","h","i","j","k","l","m",
                "n","o","p","q","r","s","t","u","v","w","x","y","z">>

LowerChar(c) ==
    IF \E i \in 1..Len(UpperChars) : UpperChars[i] = c
    THEN LowerChars[CHOOSE i \in 1..Len(UpperChars) : UpperChars[i] = c]
    ELSE c

UpperChar(c) ==
    IF \E i \in 1..Len(LowerChars) : LowerChars[i] = c
    THEN UpperChars[CHOOSE i \in 1..Len(LowerChars) : LowerChars[i] = c]
    ELSE c

\* str.lower()
Lower(s) == [i \in 1..Len(s) |-> LowerChar(s[i])]
Upper(s) == [i \in 1..Len(s) |-> UpperChar(s[i])]

\* sub in s
Contains(s, sub) ==
    \E i \in 1..(Len(s) - Len(sub) + 1) : SubSeq(s, i, i + Len(sub) - 1) = sub

paddy  == <<"p","a","d","d","y">>
rice   == <<"r","i","c","e">>
wheat  == <<"w","h","e","a","t">>
tomato == <<"t","o","m","a","t","o">>

\* The crops of the sidebar's selectbox (line 263) ...
PaddyRice == <<"P","a","d","d","y"," ","(","R","i","c","e",")">>
Wheat     == <<"W","h","e","a","t">>
Cotton    == <<"C","o","t","t","o","n">>
Tomato    == <<"T","o","m","a","t","o">>
Sugarcane == <<"S","u","g","a","r","c","a","n","e">>
Other     == <<"O","t","h","e","r">>
crops     == <<PaddyRice, Wheat, Cotton, Tomato, Sugarcane, Other>>

\* ... and further crop names, each with the rules a reader says it matches:
\* other spellings, names that match several rules, the empty name.
Row(n, r, w, t) == [name |-> n, riceLike |-> r, wheatLike |-> w, tomatoLike |-> t]
CropTable ==
    { Row(PaddyRice, TRUE, FALSE, FALSE),
      Row(Wheat, FALSE, TRUE, FALSE),
      Row(Cotton, FALSE, FALSE, FALSE),
      Row(Tomato, FALSE, FALSE, TRUE),
      Row(Sugarcane, FALSE, FALSE, FALSE),
      Row(Other, FALSE, FALSE, FALSE),
      Row(<<>>, FALSE, FALSE, FALSE),
      Row(<<"R","I","C","E">>, TRUE, FALSE, FALSE),
      Row(<<"p","a","d","d","y">>, TRUE, FALSE, FALSE),
      Row(<<"w","H","E","A","T">>, FALSE, TRUE, FALSE),
      Row(<<"W","h","e","a">>, FALSE, FALSE, FALSE),
      Row(<<"W","h","e","a","t"," ","R","i","c","e">>, TRUE, TRUE, FALSE),
      Row(<<"R","i","c","e","/","T","o","m","a","t","o">>, TRUE, FALSE, TRUE),
      Row(<<"T","O","M","A","T","O","+","W","H","E","A","T">>, FALSE, TRUE, TRUE) }

-----------------------------------------------------------------------------
(* is_crop_in_season, recommend_fertilizer *)

KharifMsg   == "Kharif season - ideal for rice planting."
RabiMsg     == "Perfect Rabi season - go for wheat now."
NotIdealMsg == "Not ideal time for wheat planting."
GenericMsg  == "Check local extension services for exact timing."

RiceFert    == "NPK 75:30:30 kg/ha - split top dressings recommended."
WheatFert   == "NPK 100:40:20 kg/ha - ensure nitrogen at tillering."
TomatoFert  == "NPK 100:60:100 + calcium spray to prevent BER."
DefaultFert == "Follow soil test recommendations."

kharif      == 6..9                  \* range(6, 10)
RabiMonths  == {10, 11, 12, 1, 2}    \* the tuple tested on line 174
Months      == 1..12

\* Two variants of is_crop_in_season, for comparison: one tests the wheat rule
\* before the rice rule, one takes October-December as the rabi months.
is_crop_in_season_wheat_first(c, m) ==
    LET crop_l == Lower(c) IN
    IF Contains(crop_l, wheat)
    THEN IF m \in RabiMonths THEN <<TRUE, RabiMsg>> ELSE <<FALSE, NotIdealMsg>>
    ELSE IF Contains(crop_l, paddy) \/ Contains(crop_l, rice)
    THEN <<m \in kharif, KharifMsg>>
    ELSE <<TRUE, GenericMsg>>

is_crop_in_season_oct_dec(c, m) ==
    LET crop_l == Lower(c) IN
    IF Contains(crop_l, paddy) \/ Contains(crop_l, rice)
    THEN <<m \in kharif, KharifMsg>>
    ELSE IF Contains(crop_l, wheat)
    THEN IF m \in 10..12 THEN <<TRUE, RabiMsg>> ELSE <<FALSE, NotIdealMsg>>
    ELSE <<TRUE, GenericMsg>>

is_crop_in_season(c, m) ==
    LET crop_l == Lower(c) IN
    IF Contains(crop_l, paddy) \/ Contains(crop_l, rice)
    THEN <<m \in kharif, KharifMsg>>
    ELSE IF Contains(crop_l, wheat)
    THEN IF m \in RabiMonths THEN <<TRUE, RabiMsg>> ELSE <<FALSE, NotIdealMsg>>
    ELSE <<TRUE, GenericMsg>>

recommend_fertilizer(c) ==
    LET crop_l == Lower(c) IN
    IF Contains(crop_l, paddy) \/ Contains(crop_l, rice) THEN RiceFert
    ELSE IF Contains(crop_l, wheat) THEN WheatFert
    ELSE IF Contains(crop_l, tomato) THEN TomatoFert
    ELSE DefaultFert

AdviceIdle ==
    /\ crop = Row(Other, FALSE, FALSE, FALSE) /\ current_month = 1
    /\ season_result = <<>> /\ fert_result = NoCall

AdviceInit ==
    /\ crop \in CropTable
    /\ current_month \in Months
    /\ season_result = <<>>
    /\ fert_result = NoCall

CallSeason ==
    /\ season_result = <<>>
    /\ season_result' = is_crop_in_season(crop.name, current_month)
    /\ UNCHANGED <<crop, current_month, fert_result, pestVars, variVars, pageVars>>

CallFertilizer ==
    /\ fert_result = NoCall
    /\ fert_result' = recommend_fertilizer(crop.name)
    /\ UNCHANGED <<crop, current_month, season_result, pestVars, variVars, pageVars>>

-----------------------------------------------------------------------------
(* pest_risk_advice_advanced *)

Window            == 24    \* temps[-24:], hums[-24:]
HumidityThreshold == 90    \* h > 90
RiceTempMin       == 24    \* avg_temp >= 24
RiceHumHours      == 8     \* high_humidity_hours >= 8
TomatoTempMax     == 28    \* avg_temp < 28
TomatoHumHours    == 10    \* high_humidity_hours >= 10

Msg(k, h) == [kind |-> k, hours |-> h]
InsufficientMsg == <<Msg("Not enough detailed hourly data", 0)>>
LowRiskMsg      == <<Msg("Low pest/disease risk", 0)>>
HighRiskMsg(h)  == Msg("HIGH RISK", h)
BlightMsg(h)    == Msg("BLIGHT RISK", h)

\* d.get(k, default)
Get(d, k, default) == IF k \in DOMAIN d THEN d[k] ELSE default

\* s[-n:]
WholeSeries(s, n) == s        \* for comparison: no window at all
LastN(s, n) == IF Len(s) <= n THEN s ELSE SubSeq(s, Len(s) - n + 1, Len(s))

IsPresent(x) == x # Absent
\* [x for x in s if x is not None]
NotNone(s) == SelectSeq(s, IsPresent)

RECURSIVE SumSeq(_)
SumSeq(s) == IF s = <<>> THEN 0 ELSE s[1][1] + SumSeq(Tail(s))

IsHumid(h) == h[1] > HumidityThreshold
CountHumid(s) == Len(SelectSeq(s, IsHumid))

pest_risk_advice_advanced(c, hd) ==
    IF DOMAIN hd = {} THEN InsufficientMsg
    ELSE
    LET temps == Get(hd, "temperature_2m", <<>>)
        hums  == Get(hd, "relative_humidity_2m", <<>>)
    IN
    IF Len(temps) < 1 \/ Len(hums) < 1 THEN InsufficientMsg
    ELSE
    LET temp_24 == NotNone(LastN(temps, Window))
        hum_24  == NotNone(LastN(hums, Window))
        hasAvg  == temp_24 # <<>>                \* avg_temp is not None
        total   == SumSeq(temp_24)               \* avg_temp = total / len
        high_humidity_hours == CountHumid(hum_24)
        crop_l  == Lower(c)
        msgRice ==
            IF /\ Contains(crop_l, paddy) \/ Contains(crop_l, rice)
               /\ hasAvg
               /\ total >= RiceTempMin * Len(temp_24)
               /\ high_humidity_hours >= RiceHumHours
            THEN <<HighRiskMsg(high_humidity_hours)>> ELSE <<>>
        msgTomato ==
            IF /\ Contains(crop_l, tomato)
               /\ hasAvg
               /\ total < TomatoTempMax * Len(temp_24)
               /\ high_humidity_hours >= TomatoHumHours
            THEN <<BlightMsg(high_humidity_hours)>> ELSE <<>>
        msg == msgRice \o msgTomato
    IN IF msg # <<>> THEN msg ELSE LowRiskMsg

\* The hourly series of a call: a run of one kind of sample, a gap of samples
\* with the temperature absent, and a run of another kind.
MaxRun == 13
MaxGap == 2

Hot  == <<38>>
Cool == <<10>>
Damp == <<95>>
Dry  == <<50>>
RunKinds == { <<Hot, Damp>>, <<Hot, Dry>>, <<Cool, Damp>> }
GapKinds == { <<Absent, Absent>>, <<Absent, Damp>>, <<Hot, Absent>> }
PestCrops == { r \in CropTable : r.name \in {PaddyRice, Tomato, Cotton} \/ (r.riceLike /\ r.tomatoLike) }

Repeat(x, n) == [i \in 1..n |-> x]
Series(f, a, i, g, j, b, k) == Repeat(a[f], i) \o Repeat(g[f], j) \o Repeat(b[f], k)
Hourly(a, i, g, j, b, k) ==
    [temperature_2m |-> Series(1, a, i, g, j, b, k),
     relative_humidity_2m |-> Series(2, a, i, g, j, b, k)]
Restrict(d, keys) == [x \in keys |-> d[x]]
KeySets == { {"temperature_2m", "relative_humidity_2m"},
             {"temperature_2m"}, {"relative_humidity_2m"}, {} }

PestIdle == hourly_data = <<>> /\ pest_result = <<>>

PestInit ==
    /\ crop \in PestCrops
    /\ \E a \in RunKinds, g \in GapKinds, b \in RunKinds, keys \in KeySets :
       \E i \in 0..MaxRun, j \in 0..MaxGap, k \in 0..MaxRun :
          hourly_data = Restrict(Hourly(a, i, g, j, b, k), keys)
    /\ pest_result = <<>>

CallPest ==
    /\ pest_result = <<>>
    /\ pest_result' = pest_risk_advice_advanced(crop.name, hourly_data)
    /\ UNCHANGED <<advVars, hourly_data, variVars, pageVars>>

-----------------------------------------------------------------------------
(* calculate_vari_from_file and the VARI section of the page *)

\* An uploaded file: whether PIL can decode it, its mode, its pixels (row by
\* row) with one number 0..255 per channel.
File(d, m, px) == [decodable |-> d, mode |-> m, pixels |-> px]
NoFile  == File(FALSE, "no file", <<>>)        \* uploaded_file is None
Corrupt == File(FALSE, "not an image", <<>>)

\* Image.open(f).convert("RGB"): a grey value becomes three equal channels,
\* an alpha channel is dropped.
ConvertRGB(f) ==
    [i \in 1..Len(f.pixels) |->
        LET p == f.pixels[i] IN
        IF f.mode = "L" THEN <<p[1], p[1], p[1]>> ELSE <<p[1], p[2], p[3]>>]

\* vari = (G - R) / ((G + R - B) + eps) with R, G, B divided by 255 and
\* eps = 1e-6, as the exact fraction num / den with den > 0:
\*   (G - R) * 200000 / ((G + R - B) * 200000 + 51)
EpsDen == 200000      \* 255 * eps = 51 / 200000
EpsNum == 51
Frac(n, d) == IF d < 0 THEN [num |-> 0 - n, den |-> 0 - d] ELSE [num |-> n, den |-> d]
Vari(p) == Frac((p[2] - p[1]) * EpsDen, (p[2] + p[1] - p[3]) * EpsDen + EpsNum)

\* np.isfinite(v): the denominator is never zero, the quotient never overflows
IsFinite(v) == v.den # 0
\* (v >= -1) & (v <= 1)
InRangeUpperOnly(v) == v.num <= v.den      \* for comparison: v <= 1 alone
InRange(v) == v.num >= 0 - v.den /\ v.num <= v.den

\* The value in thousandths, rounded down: floor(1000 * num / den), digit by
\* digit so that no intermediate product leaves 32 bits.
Milli(v) ==
    LET q0 == v.num \div v.den
        r0 == v.num % v.den
        d1 == (r0 * 10) \div v.den
        r1 == (r0 * 10) % v.den
        d2 == (r1 * 10) \div v.den
        r2 == (r1 * 10) % v.den
        d3 == (r2 * 10) \div v.den
    IN q0 * 1000 + d1 * 100 + d2 * 10 + d3

RECURSIVE SumMilli(_)
SumMilli(s) == IF s = <<>> THEN 0 ELSE Milli(s[1]) + SumMilli(Tail(s))

\* float(np.mean(valid)) if valid.size else 0.0, in thousandths
MeanOrZero(valid) == IF valid # <<>> THEN SumMilli(valid) \div Len(valid) ELSE 0

Failure == [avg_vari |-> Absent, fig |-> FALSE]      \* (None, None)

calculate_vari_from_file(f) ==
    IF ~f.decodable THEN Failure                     \* Image.open raises
    ELSE
    LET arr   == ConvertRGB(f)
        vari  == [i \in 1..Len(arr) |-> Vari(arr[i])]
        valid == SelectSeq(SelectSeq(vari, IsFinite), InRange)
    IN IF \E i \in 1..Len(arr) : Len(arr[i]) < 3 THEN Failure
       ELSE [avg_vari |-> <<MeanOrZero(valid)>>, fig |-> TRUE]

\* The branch of lines 392-397, on avg_vari in thousandths
Excellent == 200     \* avg_vari >= 0.20
Moderate  == 50      \* 0.05 <= avg_vari
\* for comparison: the same branch with strict lower limits
ClassifyStrict(a) ==
    IF a > Excellent THEN "EXCELLENT HEALTH"
    ELSE IF Moderate < a /\ a < Excellent THEN "MODERATE HEALTH"
    ELSE "POOR HEALTH/STRESS"
Classify(a) ==
    IF a >= Excellent THEN "EXCELLENT HEALTH"
    ELSE IF Moderate <= a /\ a < Excellent THEN "MODERATE HEALTH"
    ELSE "POOR HEALTH/STRESS"

\* What the VARI section displays (lines 379-399): the st.<widget> calls made
Show(w, t) == [widget |-> w, text |-> t]
VariSection(f, res) ==
    {Show("subheader", "Greenery Tracking (VARI)"), Show("file_uploader", "Upload")} \cup
    IF f # NoFile
    THEN IF res.avg_vari # Absent /\ res.fig
         THEN { Show("markdown", "Land Health Results"), Show("pyplot", "fig"),
                Show("markdown", "Average VARI"),
                LET band == Classify(res.avg_vari[1]) IN
                Show(IF band = "EXCELLENT HEALTH" THEN "success"
                     ELSE IF band = "MODERATE HEALTH" THEN "warning" ELSE "error", band) }
         ELSE {}
    ELSE {Show("info", "Upload your color image")}

\* The images of the model: up to MaxPixels pixels of these kinds
MaxPixels == 3
PixelKinds ==
    { <<128, 128, 128>>,     \* mid grey
      <<0, 0, 0>>,           \* black: 0 / eps
      <<0, 255, 0>>,         \* pure green
      <<255, 0, 0>>,         \* pure red
      <<99, 200, 47>>,       \* 0.4008
      <<124, 150, 19>>,      \* 0.1020
      <<120, 100, 60>>,      \* -0.125
      <<0, 10, 20>>,         \* just below -1
      <<0, 20, 20>>  }       \* far above 1
GreyKinds == { <<0>>, <<128>> }
Images(kinds) == UNION { [1..n -> kinds] : n \in 1..MaxPixels }
Files ==
    {NoFile, Corrupt}
    \cup { File(TRUE, "RGB", px) : px \in Images(PixelKinds) }
    \cup { File(TRUE, "L", px) : px \in Images(GreyKinds) }
    \cup { File(TRUE, "RGBA", <<p \o <<255>>>>) : p \in PixelKinds }

VariIdle == uploaded_file = NoFile /\ vari_result = Failure /\ vari_shown = {}

VariInit ==
    /\ uploaded_file \in Files
    /\ vari_result = Failure
    /\ vari_shown = {}

\* with st.spinner(...): avg_vari, fig = calculate_vari_from_file(uploaded_file)
\* and what follows it, or the else branch when nothing is uploaded
RunVariSection ==
    /\ vari_shown = {}
    /\ LET res == IF uploaded_file # NoFile
                  THEN calculate_vari_from_file(uploaded_file) ELSE Failure
       IN /\ vari_result' = res
          /\ vari_shown' = VariSection(uploaded_file, res)
    /\ UNCHANGED <<uploaded_file, advVars, pestVars, pageVars>>

-----------------------------------------------------------------------------
(* The page script: one run after another in one browser session *)

\* st.session_state is a dict: a function over the keys that are present
Put(d, k, v) == [x \in DOMAIN d \cup {k} |-> IF x = k THEN v ELSE d[x]]
Has(d, k) == k \in DOMAIN d
EmptyDict == <<>>

\* JSON scalars of a weather response
JNull   == [type |-> "null", num |-> 0, str |-> <<>>]
JNum(n) == [type |-> "number", num |-> n, str |-> <<>>]
JStr(t) == [type |-> "string", num |-> 0, str |-> t]
\* d.get(k) on a dict of JSON scalars: None when the key is missing
GetJ(d, k) == IF k \in DOMAIN d THEN d[k] ELSE JNull

\* safe_float: None for None, "" and "nan" in any case and for anything
\* float() rejects (the texts of the model are not numbers)
safe_float(val) ==
    IF val.type = "null" THEN Absent
    ELSE IF val.type = "string" /\ val.str = <<>> THEN Absent
    ELSE IF val.type = "string" /\ Lower(val.str) = <<"n","a","n">> THEN Absent
    ELSE IF val.type = "number" THEN <<val.num>>
    ELSE Absent

\* What a geocoding provider does with one request
GeoOutcomes == {"results", "no results", "bad result", "error"}
Cities == {"Usilampatti", "Madurai"}
Place(c) == IF c = "Usilampatti" THEN <<10, 78>> ELSE <<9, 78>>   \* (lat, lon)

\* get_coordinates: the whole body is one try block, so whatever the primary
\* request raises ends the call with None
get_coordinates(c, primary, secondary) ==
    IF primary = "results"
    THEN [coords |-> <<Place(c)>>, secondary_queried |-> FALSE]
    ELSE IF primary \in {"bad result", "error"}        \* except Exception
    THEN [coords |-> Absent, secondary_queried |-> FALSE]
    ELSE [coords |-> IF secondary = "results" THEN <<Place(c)>> ELSE Absent,
          secondary_queried |-> TRUE]

\* get_open_meteo: the parsed response, or None when the request raises
get_open_meteo(ok, response) == IF ok THEN <<response>> ELSE Absent
\* x or {}
OrEmptyDict(x) == IF x = Absent THEN EmptyDict ELSE x[1]

NumHeatPoints  == 50    \* for _ in range(50)
FallbackTemp   == 28    \* weather_card.get("temperature", 28)
ForecastDays   == 7     \* [:7]
SprayWindMax   == 8     \* wind < 8
SprayTempMin   == 18    \* 18 <= temp
SprayTempMax   == 35    \* temp <= 35

Min(a, b) == IF a < b THEN a ELSE b

\* Lines 275-287: what the script keeps of the weather response
WeatherPart(coords, open_data) ==
    IF coords # Absent
    THEN IF DOMAIN open_data # {} /\ Has(open_data, "current_weather")
         THEN LET cw  == Get(open_data, "current_weather", EmptyDict)
                  hfd == Get(open_data, "hourly", EmptyDict)
              IN [weather_card |-> [temperature |-> safe_float(GetJ(cw, "temperature")),
                                    windspeed   |-> safe_float(GetJ(cw, "windspeed"))],
                  hourly_full_data |-> hfd,
                  temperatures |-> LastN(Get(hfd, "temperature_2m", <<>>), Window),
                  shown |-> {}]
         ELSE [weather_card |-> EmptyDict, hourly_full_data |-> EmptyDict,
               temperatures |-> <<>>,
               shown |-> {Show("warning", "Could not fetch real-time weather data.")}]
    ELSE [weather_card |-> EmptyDict, hourly_full_data |-> EmptyDict,
          temperatures |-> <<>>,
          shown |-> {Show("info", "Enter a valid city in the sidebar to fetch data.")}]

\* Lines 292-322, column 1.  A heat point is kept as the place it is scattered
\* around; its random offsets and its temperature are left out.
\* float(current_temp) raises TypeError when current_temp is None.
Regenerate(ss, c) == ~Has(ss, "heat_points") \/ Get(ss, "last_city", None) # c
HeatSection(ss, c, coords, temperatures, weather_card) ==
    IF coords = Absent
    THEN [session |-> ss, raised |-> "", regenerated |-> FALSE,
          shown |-> {Show("error", "Invalid city")}]
    ELSE
    LET head == {Show("markdown", "Location & Heatmap"), Show("write", c)}
        ss1  == Put(Put(ss, "heat_points", <<>>), "last_city", c)
        temps == NotNone(temperatures)
        current_temp == Get(weather_card, "temperature", <<FallbackTemp>>)
        ss2  == Put(ss1, "heat_points", Repeat(coords[1], NumHeatPoints))
        map(x) == IF x["heat_points"] # <<>>
                  THEN {Show("html", "folium map")}
                  ELSE {Show("info", "Heatmap data unavailable.")}
    IN IF Regenerate(ss, c)
       THEN IF temps = <<>> /\ current_temp = Absent
            THEN [session |-> ss1, raised |-> "TypeError", regenerated |-> FALSE,
                  shown |-> head]
            ELSE [session |-> ss2, raised |-> "", regenerated |-> TRUE,
                  shown |-> head \cup map(ss2)]
       ELSE [session |-> ss, raised |-> "", regenerated |-> FALSE,
             shown |-> head \cup map(ss)]

\* Lines 328-330: st.metric shows the value, or "N/A" when the key is missing
Metric(label, weather_card, k) ==
    Show("metric", IF Has(weather_card, k)
                   THEN IF weather_card[k] = Absent THEN label \o ": None"
                        ELSE label \o ": value"
                   ELSE label \o ": N/A")

\* Lines 334-344.  A column of the daily block is kept as its length.
\* pd.DataFrame raises ValueError when its columns differ in length.
ForecastSection(show_forecast, open_data) ==
    IF show_forecast /\ DOMAIN open_data # {} /\ Has(open_data, "daily")
    THEN LET daily == Get(open_data, "daily", EmptyDict)
             col(k) == Min(Get(daily, k, 0), ForecastDays)
         IN IF col("time") = col("temperature_2m_max")
               /\ col("time") = col("precipitation_sum")
            THEN [raised |-> "", shown |-> {Show("markdown", "7-Day Summary"),
                                            Show("dataframe", "forecast")}]
            ELSE [raised |-> "ValueError", shown |-> {Show("markdown", "7-Day Summary")}]
    ELSE IF show_forecast
    THEN [raised |-> "", shown |-> {Show("info", "Forecast not available.")}]
    ELSE [raised |-> "", shown |-> {}]

\* Lines 348-356
AgronomySection(season, fert) ==
    { IF season[1] THEN Show("success", "planting is recommended")
                   ELSE Show("warning", "Not ideal time"),
      Show("caption", season[2]), Show("write", fert) }

\* Lines 358-365
SpraySection(weather_card) ==
    LET temp == Get(weather_card, "temperature", Absent)
        wind == Get(weather_card, "windspeed", Absent)
    IN IF /\ temp # Absent /\ wind # Absent /\ wind[1] < SprayWindMax
          /\ SprayTempMin <= temp[1] /\ temp[1] <= SprayTempMax
       THEN {Show("success", "Safe to spray pesticides now.")}
       ELSE IF wind # Absent /\ wind[1] >= SprayWindMax
       THEN {Show("warning", "Wind too high")}
       ELSE {Show("info", "Spray advice unavailable.")}

\* Lines 371-376: "RISK" is part of both risk messages
PestSection(res) ==
    IF \E i \in 1..Len(res) : res[i].kind \in {"HIGH RISK", "BLIGHT RISK"}
    THEN {Show("error", "pest risk")}
    ELSE {Show("success", res[1].kind)}

\* The script's own variables between two runs
BlankRun ==
    [city |-> "", show_forecast |-> FALSE,
     primary |-> "", secondary |-> "", secondary_queried |-> FALSE,
     coords |-> Absent, open_data |-> EmptyDict, weather_card |-> EmptyDict,
     temperatures |-> <<>>, regenerated |-> FALSE, had_points |-> FALSE,
     same_city |-> FALSE, raised |-> "", shown |-> {}]

\* The inputs of the page runs of the model
PageCrops  == { r \in CropTable : r.name \in {crops[1], crops[2]} }
PageMonths == {7}
PageFiles  == { NoFile, Corrupt, File(TRUE, "RGB", <<<<99, 200, 47>>>>) }
\* The parts of a weather response: each may be missing from the response;
\* "current_weather" may be an empty object or carry unusable values, the
\* hourly block may hold absent samples only, the daily block may lack a column
CurrentWeathers ==
    { <<[temperature |-> JNum(31), windspeed |-> JNum(5)], {"temperature", "windspeed"}>>,
      <<[temperature |-> JNum(31), windspeed |-> JNum(5)], {}>>,
      <<[temperature |-> JStr(<<"N","a","N">>), windspeed |-> JNum(12)],
        {"temperature", "windspeed"}>> }
Hourlies ==
    { <<[temperature_2m |-> <<Hot, Absent>>, relative_humidity_2m |-> <<Damp, Damp>>],
        {"temperature_2m", "relative_humidity_2m"}>>,
      <<[temperature_2m |-> <<Absent>>, relative_humidity_2m |-> <<Dry>>],
        {"temperature_2m", "relative_humidity_2m"}>> }
Dailies ==
    { <<[time |-> 9, temperature_2m_max |-> 9, precipitation_sum |-> 8],
        {"time", "temperature_2m_max", "precipitation_sum"}>>,
      <<[time |-> 7, temperature_2m_max |-> 7, precipitation_sum |-> 7],
        {"time", "temperature_2m_max"}>> }
Dict(pair) == Restrict(pair[1], pair[2])

PageIdle == pc = "off" /\ session_state = EmptyDict /\ run = EmptyDict

PageInit ==
    /\ pc = "idle"
    /\ session_state = EmptyDict
    /\ run = BlankRun
    /\ crop = Row(Other, FALSE, FALSE, FALSE) /\ current_month = 1
    /\ season_result = <<>> /\ fert_result = NoCall
    /\ PestIdle /\ VariIdle

\* Lines 27-62: the first run of a session shows the splash, sets the flag and
\* asks for a rerun
SplashRun ==
    /\ pc = "idle"
    /\ ~Get(session_state, "splash_shown", FALSE)
    /\ session_state' = Put(session_state, "splash_shown", TRUE)
    /\ UNCHANGED <<pc, run, advVars, pestVars, variVars>>

\* Lines 258-273: the widgets' values of this run
StartRun ==
    /\ pc = "idle"
    /\ Get(session_state, "splash_shown", FALSE)
    /\ \E c \in Cities, f \in BOOLEAN :
          run' = [BlankRun EXCEPT !.city = c, !.show_forecast = f]
    /\ crop' \in PageCrops
    /\ current_month' \in PageMonths
    /\ uploaded_file' \in PageFiles
    /\ pc' = "coords"
    /\ UNCHANGED <<session_state, season_result, fert_result, pestVars,
                   vari_result, vari_shown>>

\* Line 268: coords = get_coordinates(city)
GetCoordinates ==
    /\ pc = "coords"
    /\ \E primary \in GeoOutcomes, secondary \in GeoOutcomes :
          LET r == get_coordinates(run.city, primary, secondary) IN
          run' = [run EXCEPT !.primary = primary, !.secondary = secondary,
                             !.coords = r.coords,
                             !.secondary_queried = r.secondary_queried]
    /\ pc' = "weather"
    /\ UNCHANGED <<session_state, advVars, pestVars, variVars>>

\* Lines 275-287: the weather request, made when the city was resolved
KeepWeather(open_data) ==
    LET w == WeatherPart(run.coords, open_data)
    IN /\ run' = [run EXCEPT !.open_data = open_data,
                             !.weather_card = w.weather_card,
                             !.temperatures = w.temperatures,
                             !.shown = w.shown]
       /\ hourly_data' = w.hourly_full_data

FetchWeather ==
    /\ pc = "weather"
    /\ IF run.coords = Absent
       THEN KeepWeather(EmptyDict)
       ELSE \/ KeepWeather(OrEmptyDict(get_open_meteo(FALSE, EmptyDict)))
            \/ \E cw \in CurrentWeathers, h \in Hourlies, d \in Dailies :
               \E cp \in BOOLEAN, hp \in BOOLEAN, dp \in BOOLEAN :
                  LET keys == (IF cp THEN {"current_weather"} ELSE {})
                              \cup (IF hp THEN {"hourly"} ELSE {})
                              \cup (IF dp THEN {"daily"} ELSE {})
                      response == Restrict([current_weather |-> Dict(cw),
                                            hourly |-> Dict(h),
                                            daily |-> Dict(d)], keys)
                  IN KeepWeather(OrEmptyDict(get_open_meteo(TRUE, response)))
    /\ pc' = "render"
    /\ UNCHANGED <<session_state, advVars, pest_result, variVars>>

\* Lines 290-403: the three columns and the footer.  An exception ends the
\* run where it is raised; what was stored in the session before it stays.
Render ==
    /\ pc = "render"
    /\ LET heat == HeatSection(session_state, run.city, run.coords,
                               run.temperatures, run.weather_card)
           fc   == ForecastSection(run.show_forecast, run.open_data)
           season == is_crop_in_season(crop.name, current_month)
           fert   == recommend_fertilizer(crop.name)
           pest   == pest_risk_advice_advanced(crop.name, hourly_data)
           vres   == IF uploaded_file # NoFile
                     THEN calculate_vari_from_file(uploaded_file) ELSE Failure
           before == [run EXCEPT !.had_points =
                                     /\ Has(session_state, "heat_points")
                                     /\ session_state["heat_points"] # <<>>,
                                 !.same_city =
                                     /\ Has(session_state, "last_city")
                                     /\ session_state["last_city"] = run.city,
                                 !.regenerated = heat.regenerated]
           col2a  == { Metric("Temperature", run.weather_card, "temperature"),
                       Metric("Wind Speed", run.weather_card, "windspeed") }
       IN /\ session_state' = heat.session
          /\ IF heat.raised # ""
             THEN /\ pc' = "crashed"
                  /\ run' = [before EXCEPT !.raised = heat.raised,
                                           !.shown = run.shown \cup heat.shown]
                  /\ UNCHANGED <<season_result, fert_result, pest_result,
                                 vari_result, vari_shown>>
             ELSE IF fc.raised # ""
             THEN /\ pc' = "crashed"
                  /\ run' = [before EXCEPT !.raised = fc.raised,
                                           !.shown = run.shown \cup heat.shown
                                                     \cup col2a \cup fc.shown]
                  /\ UNCHANGED <<season_result, fert_result, pest_result,
                                 vari_result, vari_shown>>
             ELSE /\ pc' = "done"
                  /\ season_result' = season
                  /\ fert_result' = fert
                  /\ pest_result' = pest
                  /\ vari_result' = vres
                  /\ vari_shown' = VariSection(uploaded_file, vres)
                  /\ run' = [before EXCEPT !.shown =
                               run.shown \cup heat.shown \cup col2a \cup fc.shown
                               \cup AgronomySection(season, fert)
                               \cup SpraySection(run.weather_card)
                               \cup PestSection(pest)
                               \cup {Show("caption", "footer")}]
    /\ UNCHANGED <<crop, current_month, hourly_data, uploaded_file>>

\* Any interaction, or the exception page's rerun, starts the script again
\* with the session kept
Rerun ==
    /\ pc \in {"done", "crashed"}
    /\ pc' = "idle"
    /\ run' = BlankRun
    /\ crop' = Row(Other, FALSE, FALSE, FALSE) /\ current_month' = 1
    /\ season_result' = <<>> /\ fert_result' = NoCall
    /\ hourly_data' = <<>> /\ pest_result' = <<>>
    /\ uploaded_file' = NoFile /\ vari_result' = Failure /\ vari_shown' = {}
    /\ UNCHANGED session_state

-----------------------------------------------------------------------------
(* The specifications *)

AdviceNext == CallSeason \/ CallFertilizer
InitAdvice == AdviceInit /\ PestIdle /\ VariIdle /\ PageIdle
SpecAdvice == InitAdvice /\ [][AdviceNext]_vars

PestNext == CallPest
InitPest ==
    /\ PestInit /\ current_month = 1 /\ season_result = <<>> /\ fert_result = NoCall
    /\ VariIdle /\ PageIdle
SpecPest == InitPest /\ [][PestNext]_vars

VariNext == RunVariSection
InitVari == VariInit /\ AdviceIdle /\ PestIdle /\ PageIdle
SpecVari == InitVari /\ [][VariNext]_vars

Init == PageInit
Next == SplashRun \/ StartRun \/ GetCoordinates \/ FetchWeather \/ Render \/ Rerun
Spec == Init /\ [][Next]_vars

-----------------------------------------------------------------------------
(* Properties of the advice functions (SpecAdvice) *)

SeasonReturned == season_result # <<>>
AdviceReturned == season_result # <<>> /\ fert_result # NoCall

\* C8: season_advice is total over every crop name and month 1..12; a
\* wheat-like crop gets (true, rabi message) exactly in months 10, 11, 12, 1, 2
\* and (false, not-ideal message) in every other month; a rice-like crop gets
\* true exactly in months 6-9; a crop matching neither gets true with the
\* generic message.  (A name matching both rules is rice-like: see C9.)
C8_SeasonAdvice ==
    /\ ~SeasonReturned => ENABLED CallSeason
    /\ SeasonReturned =>
        /\ Len(season_result) = 2
        /\ season_result[1] \in BOOLEAN
        /\ crop.riceLike =>
              season_result[1] = (current_month \in {6, 7, 8, 9})
        /\ crop.wheatLike /\ ~crop.riceLike =>
              season_result = IF current_month \in {10, 11, 12, 1, 2}
                              THEN <<TRUE, RabiMsg>> ELSE <<FALSE, NotIdealMsg>>
        /\ ~crop.wheatLike /\ ~crop.riceLike =>
              season_result = <<TRUE, GenericMsg>>

\* A wheat crop asked in January, across the year's wrap: the rabi answer.
C8_Witness ==
    /\ crop.name = Wheat /\ current_month = 1
    /\ season_result = <<TRUE, RabiMsg>>

\* C9: in season_advice and fertilizer_advice the crop name is matched without
\* regard to case, and a name matching several rules is resolved in the same
\* order in both: rice-like, then wheat-like, then the rest, then the default.
C9_CaseAndPriority ==
    AdviceReturned =>
        /\ season_result = is_crop_in_season(Upper(crop.name), current_month)
        /\ season_result = is_crop_in_season(Lower(crop.name), current_month)
        /\ fert_result = recommend_fertilizer(Upper(crop.name))
        /\ fert_result = recommend_fertilizer(Lower(crop.name))
        /\ crop.riceLike =>
              season_result[2] = KharifMsg /\ fert_result = RiceFert
        /\ ~crop.riceLike /\ crop.wheatLike =>
              season_result[2] \in {RabiMsg, NotIdealMsg} /\ fert_result = WheatFert
        /\ ~crop.riceLike /\ ~crop.wheatLike /\ crop.tomatoLike =>
              season_result[2] = GenericMsg /\ fert_result = TomatoFert
        /\ ~crop.riceLike /\ ~crop.wheatLike /\ ~crop.tomatoLike =>
              season_result[2] = GenericMsg /\ fert_result = DefaultFert

\* A name in capitals that matches the wheat and the tomato rule: wheat wins.
C9_Witness ==
    /\ AdviceReturned
    /\ crop.wheatLike /\ crop.tomatoLike
    /\ crop.name = Upper(crop.name)
    /\ season_result[2] \in {RabiMsg, NotIdealMsg}
    /\ fert_result = WheatFert

-----------------------------------------------------------------------------
(* Properties of pest_risk_advice_advanced (SpecPest) *)

PestReturned == pest_result # <<>>
TempSeries == Get(hourly_data, "temperature_2m", <<>>)
HumSeries  == Get(hourly_data, "relative_humidity_2m", <<>>)

\* positions of the samples that are present
Usable(s) == { i \in 1..Len(s) : s[i] # Absent }
\* positions of the last 24 entries of a series
Recent(s) == { i \in 1..Len(s) : i > Len(s) - 24 }
\* positions of the last 24 present samples of a series
LastUsable(s) == { i \in Usable(s) : Cardinality({ j \in Usable(s) : j >= i }) <= 24 }

RECURSIVE SumAt(_, _)
SumAt(s, I) ==
    IF I = {} THEN 0
    ELSE LET i == CHOOSE x \in I : TRUE IN s[i][1] + SumAt(s, I \ {i})

\* the mean of the samples at positions I exists and is at least / below n
MeanAtLeast(s, I, n) == I # {} /\ SumAt(s, I) >= n * Cardinality(I)
MeanBelow(s, I, n)   == I # {} /\ SumAt(s, I) < n * Cardinality(I)
HumidHours(s, I) == Cardinality({ i \in I : s[i][1] > 90 })

HasKind(k) == \E i \in 1..Len(pest_result) : pest_result[i].kind = k

\* C3: for every crop the fixed "insufficient data" message is returned
\* whenever the temperature series or the humidity series has fewer than one
\* usable sample, also when the series is non-empty but holds only absent values.
C3_InsufficientWithoutUsableSample ==
    PestReturned /\ (Usable(TempSeries) = {} \/ Usable(HumSeries) = {})
        => pest_result = InsufficientMsg

\* C4 as stated: the rules read the mean of the last 24 present temperature
\* samples (absent ones do not use up the 24) and the humid hours among the
\* last 24 humidity samples; a rice-like crop gets the high-risk message
\* exactly when the mean is >= 24 and the humid hours are >= 8.
C4_LastAvailableSamples ==
    PestReturned /\ crop.riceLike /\ pest_result # InsufficientMsg =>
        ( HasKind("HIGH RISK") <=>
            /\ MeanAtLeast(TempSeries, LastUsable(TempSeries), 24)
            /\ HumidHours(HumSeries, Recent(HumSeries) \cap Usable(HumSeries)) >= 8 )

\* C4 amended: for non-empty series, the rules read the mean of the present
\* samples among the last 24 temperature entries and the humid hours among the
\* last 24 humidity entries (an absent entry uses up one of the 24); a
\* rice-like crop gets the high-risk message exactly when that mean exists and
\* is >= 24 and the humid hours are >= 8; when no rule fires the fixed low-risk
\* message is returned.
RiceRuleFires ==
    /\ crop.riceLike
    /\ MeanAtLeast(TempSeries, Recent(TempSeries) \cap Usable(TempSeries), 24)
    /\ HumidHours(HumSeries, Recent(HumSeries) \cap Usable(HumSeries)) >= 8
TomatoRuleFires ==
    /\ crop.tomatoLike
    /\ MeanBelow(TempSeries, Recent(TempSeries) \cap Usable(TempSeries), 28)
    /\ HumidHours(HumSeries, Recent(HumSeries) \cap Usable(HumSeries)) >= 10
C4_LastEntriesWindow ==
    PestReturned /\ Len(TempSeries) >= 1 /\ Len(HumSeries) >= 1 =>
        /\ HasKind("HIGH RISK") <=> RiceRuleFires
        /\ RiceRuleFires =>
              pest_result[1] = HighRiskMsg(HumidHours(HumSeries,
                                   Recent(HumSeries) \cap Usable(HumSeries)))
        /\ pest_result = LowRiskMsg <=> ~RiceRuleFires /\ ~TomatoRuleFires

\* A rice crop with more than 24 samples, 24 of them present, an absent one
\* among the last 24 entries, and the high-risk message returned.
C4_Witness ==
    /\ crop.riceLike
    /\ HasKind("HIGH RISK")
    /\ Len(TempSeries) > 24
    /\ Cardinality(Usable(TempSeries)) >= 24
    /\ Recent(TempSeries) \ Usable(TempSeries) # {}

-----------------------------------------------------------------------------
(* Properties of the VARI computation and its display (SpecVari) *)

VariRan == vari_shown # {}
Bands == {"EXCELLENT HEALTH", "MODERATE HEALTH", "POOR HEALTH/STRESS"}
BandsShown == { m.text : m \in { x \in vari_shown : x.text \in Bands } }
Channels(f) == IF f.mode = "L" THEN 1 ELSE IF f.mode = "RGB" THEN 3 ELSE 4

\* C5: when the uploaded file cannot be decoded or does not have three colour
\* channels, compute_vari returns Failure, and the page shows an informational
\* or warning message instead of a VARI result.
C5_FailureIsReported ==
    VariRan /\ uploaded_file # NoFile
            /\ (~uploaded_file.decodable \/ Channels(uploaded_file) # 3) =>
        /\ vari_result = Failure
        /\ BandsShown = {}
        /\ \E m \in vari_shown : m.widget \in {"info", "warning"}

\* C6: the classification of the average is total with one band per value:
\* >= 0.20 EXCELLENT, 0.05 <= average < 0.20 MODERATE, < 0.05 POOR; exactly
\* 0.20 is EXCELLENT and exactly 0.05 is MODERATE.
C6_Classification ==
    VariRan /\ vari_result # Failure =>
        LET a == vari_result.avg_vari[1] IN
        BandsShown =
            { IF a >= 200 THEN "EXCELLENT HEALTH"
              ELSE IF a >= 50 THEN "MODERATE HEALTH"
              ELSE "POOR HEALTH/STRESS" }

\* An image whose average is exactly 0.200, shown as EXCELLENT.
C6_Witness ==
    /\ vari_result # Failure
    /\ vari_result.avg_vari = <<200>>
    /\ BandsShown = {"EXCELLENT HEALTH"}

\* An image whose average is exactly 0.050, shown as MODERATE.
C6_WitnessModerate ==
    /\ vari_result # Failure
    /\ vari_result.avg_vari = <<50>>
    /\ BandsShown = {"MODERATE HEALTH"}

Abs(n) == IF n < 0 THEN 0 - n ELSE n
RgbOf(f) == ConvertRGB(f)
\* the pixels whose VARI lies within [-1, 1]
Kept(f) == { i \in 1..Len(f.pixels) :
               LET p == RgbOf(f)[i] IN
               Abs((p[2] - p[1]) * 200000) <= Abs((p[2] + p[1] - p[3]) * 200000 + 51) }
RECURSIVE SumKept(_, _)
SumKept(f, I) ==
    IF I = {} THEN 0
    ELSE LET i == CHOOSE x \in I : TRUE IN Milli(Vari(RgbOf(f)[i])) + SumKept(f, I \ {i})
AllGrey(f) == \A i \in 1..Len(f.pixels) :
                 LET p == RgbOf(f)[i] IN p[1] = p[2] /\ p[2] = p[3]

\* C7: for every decodable image the average lies in [-1, 1] and is the
\* arithmetic mean of exactly the per-pixel values that are finite and within
\* [-1, 1]; also for an image whose every pixel is excluded (where it is 0);
\* an all-grey image has average 0.
C7_AverageOfKeptPixels ==
    VariRan /\ uploaded_file.decodable =>
        /\ vari_result # Failure
        /\ LET a == vari_result.avg_vari[1]
               I == Kept(uploaded_file)
           IN /\ a >= 0 - 1000 /\ a <= 1000
              /\ I # {} => a = SumKept(uploaded_file, I) \div Cardinality(I)
              /\ I = {} => a = 0
              /\ AllGrey(uploaded_file) => a = 0

\* An image with a kept and an excluded pixel and a non-zero average.
C7_Witness ==
    /\ VariRan /\ uploaded_file.decodable
    /\ Kept(uploaded_file) # {}
    /\ Kept(uploaded_file) # 1..Len(uploaded_file.pixels)
    /\ vari_result.avg_vari # <<0>>

\* An image whose every pixel is excluded.
C7_WitnessAllExcluded ==
    /\ VariRan /\ uploaded_file.decodable
    /\ Kept(uploaded_file) = {}

-----------------------------------------------------------------------------
(* Properties of the page script (Spec) *)

RunEnded == pc \in {"done", "crashed"}
Geocoded == pc \in {"weather", "render", "done", "crashed"}

\* C1: whatever the geocoding call and the weather call return (success, empty
\* result, partial response with any field absent, failure), a run of the page
\* reaches its end without an uncaught exception.
C1_RunReachesItsEnd == pc # "crashed" /\ run.raised = ""

\* C2: get_coordinates returns None only if both providers fail to give a
\* usable result: whenever the primary gives none, also by a network or parse
\* error, the secondary is queried and its usable result is returned.
C2_FallbackOnAnyPrimaryFailure ==
    Geocoded =>
        /\ run.primary # "results" => run.secondary_queried
        /\ run.primary # "results" /\ run.secondary = "results"
              => run.coords = <<Place(run.city)>>
        /\ run.coords = Absent
              => run.primary # "results" /\ run.secondary # "results"

\* C10: whenever the heatmap section has run for a resolved city, heat_points
\* holds exactly 50 points and last_city is the entered city; the points are
\* regenerated exactly when none exist yet or the city differs from last_city;
\* the "Heatmap data unavailable" branch is never reached.
C10_HeatPointsAlwaysPresent ==
    RunEnded /\ run.coords # Absent /\ run.raised # "TypeError" =>
        /\ Has(session_state, "heat_points")
        /\ Len(session_state["heat_points"]) = 50
        /\ Get(session_state, "last_city", None) = run.city
        /\ run.regenerated <=> (~run.had_points \/ ~run.same_city)
        /\ Show("info", "Heatmap data unavailable.") \notin run.shown

====
